---------------------------- MODULE Spec2Model ----------------------------
(***************************************************************************)
(* A model of the synchronisation engine of cn-stock-monitor               *)
(* (src/collector.py): DataManager._init_db, DataManager.fetch_data and    *)
(* DataManager.sync_data, with the sqlite table daily_records as a set of  *)
(* rows and the akshare provider as an environment.                        *)
(*                                                                         *)
(* Representation of values:                                               *)
(*   - a calendar day (datetime)      : days since 1970-01-01 (an integer) *)
(*   - a 'YYYY-MM-DD' string          : <<y, m, d>>, compared              *)
(*                                      lexicographically like the string  *)
(*   - a 'YYYYMMDD' string            : y*10000 + m*100 + d, compared like *)
(*                                      the fixed-width digit string       *)
(*   - a float                        : <<n, d>> for n/d in lowest terms,  *)
(*                                      <<0, 0>> for NaN; vol_ratio, which *)
(*                                      the code rounds to 2 decimals, is  *)
(*                                      an integer number of hundredths    *)
(*   - an instrument code             : the sequence of its characters     *)
(*   - a DataFrame                    : [cols, rows], rows a sequence of   *)
(*                                      functions from cols                *)
(*   - the columns 日期 收盘 涨跌幅 成交额 换手率 振幅 are spelled       *)
(*     riqi shoupan zhangdiefu chengjiaoe huanshoulv zhenfu                *)
(***************************************************************************)
EXTENDS Integers, Sequences, FiniteSets, TLC

VARIABLES
    store,        \* the rows of table daily_records
    today,        \* the local calendar day, datetime.now()
    pc,           \* where the collector process is
    target_list,  \* sync_data's argument: a sequence of <<code, name>>
    idx,          \* position of the for loop in target_list
    start_dt,     \* sync_data's start_dt ('YYYYMMDD')
    end_dt,       \* sync_data's end_dt ('YYYYMMDD')
    resp,         \* what the provider answered to the last call
    path,         \* the branch of fetch_data the last call took
    data,         \* the DataFrame fetch_data returned
    log,          \* the lines printed in this sync cycle
    txn,          \* the rows of data inserted by the open transaction
    hist          \* bookkeeping: facts about this cycle and the one before

vars == <<store, today, pc, target_list, idx, start_dt, end_dt, resp, path,
          data, log, txn, hist>>

-----------------------------------------------------------------------------
(* Bounds of the model *)

MaxCycles == 2
MaxTicks == 1
MaxRows == 6

-----------------------------------------------------------------------------
(* Calendar: what datetime, strftime, strptime and timedelta compute *)

DaysFromCivil(y, m, d) ==
    LET yy  == IF m <= 2 THEN y - 1 ELSE y
        era == yy \div 400
        yoe == yy - era * 400
        mp  == (m + 9) % 12
        doy == (153 * mp + 2) \div 5 + d - 1
        doe == yoe * 365 + yoe \div 4 - yoe \div 100 + doy
    IN  era * 146097 + doe - 719468

CivilFromDays(n) ==
    LET z   == n + 719468
        era == z \div 146097
        doe == z - era * 146097
        yoe == (doe - doe \div 1460 + doe \div 36524 - doe \div 146096) \div 365
        doy == doe - (365 * yoe + yoe \div 4 - yoe \div 100)
        mp  == (5 * doy + 2) \div 153
        d   == doy - (153 * mp + 2) \div 5 + 1
        m   == IF mp < 10 THEN mp + 3 ELSE mp - 9
        y   == yoe + era * 400 + (IF m <= 2 THEN 1 ELSE 0)
    IN  <<y, m, d>>

\* strftime('%Y-%m-%d')
StrftimeIso(n) == CivilFromDays(n)

\* strftime('%Y%m%d')
StrftimeCompact(n) ==
    LET c == CivilFromDays(n) IN c[1] * 10000 + c[2] * 100 + c[3]

\* datetime.strptime(s, '%Y-%m-%d')
StrptimeIso(s) == DaysFromCivil(s[1], s[2], s[3])

\* pd.to_datetime('YYYYMMDD')
ToDatetimeCompact(c) == DaysFromCivil(c \div 10000, (c \div 100) % 100, c % 100)

\* s <= t for two 'YYYY-MM-DD' strings
IsoLeq(s, t) ==
    \/ s[1] < t[1]
    \/ s[1] = t[1] /\ s[2] < t[2]
    \/ s[1] = t[1] /\ s[2] = t[2] /\ s[3] <= t[3]

-----------------------------------------------------------------------------
(* Floats *)

RECURSIVE Gcd(_, _)
Gcd(a, b) == IF b = 0 THEN a ELSE Gcd(b, a % b)

Abs(x) == IF x < 0 THEN -x ELSE x

NaN == <<0, 0>>

\* n / d as a float: lowest terms, <<1,0>> and <<-1,0>> the infinities
Rat(n, d) ==
    IF d = 0 THEN <<(IF n > 0 THEN 1 ELSE IF n < 0 THEN -1 ELSE 0), 0>>
    ELSE LET g == Gcd(Abs(n), Abs(d))
             s == IF d < 0 THEN -1 ELSE 1
         IN  <<(s * n) \div g, (s * d) \div g>>

\* round(p / q, 2) in hundredths, for p >= 0 and q > 0: numpy rounds half to even
RoundHundredths(p, q) ==
    LET f == (100 * p) \div q
        r == (100 * p) % q
    IN  IF 2 * r < q THEN f
        ELSE IF 2 * r > q THEN f + 1
        ELSE IF f % 2 = 0 THEN f ELSE f + 1

-----------------------------------------------------------------------------
(* DataFrames *)

EmptyDataFrame == [cols |-> {}, rows |-> << >>]

\* DataFrame.empty: some axis has length 0
IsEmpty(df) == df.cols = {} \/ Len(df.rows) = 0

RenameCol(c, mapping) == IF c \in DOMAIN mapping THEN mapping[c] ELSE c

\* DataFrame.rename(columns=mapping): labels not present are ignored
Rename(df, mapping) ==
    LET newcols == {RenameCol(c, mapping) : c \in df.cols}
        Old(n)  == CHOOSE c \in df.cols : RenameCol(c, mapping) = n
    IN  [cols |-> newcols,
         rows |-> [k \in 1..Len(df.rows) |-> [n \in newcols |-> df.rows[k][Old(n)]]]]

\* df[col] = values (one value per row)
SetCol(df, col, values) ==
    [cols |-> df.cols \cup {col},
     rows |-> [k \in 1..Len(df.rows) |->
                 [n \in df.cols \cup {col} |->
                    IF n = col THEN values[k] ELSE df.rows[k][n]]]]

\* df[[c1, ..., cn]]
Project(df, cols) ==
    [cols |-> cols,
     rows |-> [k \in 1..Len(df.rows) |-> [n \in cols |-> df.rows[k][n]]]]

-----------------------------------------------------------------------------
(* fetch_data *)

Window == 5
Neutral == 100

IndexPrefixes == {<<"s", "h", "0">>, <<"s", "z", "3">>}
FundPrefixes == {<<"5">>, <<"1">>}

\* str.startswith(tuple of prefixes)
StartsWith(s, prefixes) ==
    \E p \in prefixes : Len(s) >= Len(p) /\ SubSeq(s, 1, Len(p)) = p

\* Category with the index prefixes cut to 'sh' and 'sz'
CategoryByExchange(symbol) ==
    IF StartsWith(symbol, {<<"s", "h">>, <<"s", "z">>}) THEN "index"
    ELSE IF StartsWith(symbol, FundPrefixes) THEN "fund"
    ELSE "equity"

\* the if / elif / else of fetch_data
Category(symbol) ==
    IF StartsWith(symbol, IndexPrefixes) THEN "index"
    ELSE IF StartsWith(symbol, FundPrefixes) THEN "fund"
    ELSE "equity"

IndexMapping == [date |-> "riqi", close |-> "shoupan", amount |-> "chengjiaoe"]

FundMapping ==
    [riqi |-> "riqi", shoupan |-> "shoupan", zhangdiefu |-> "zhangdiefu",
     chengjiaoe |-> "chengjiaoe", huanshoulv |-> "huanshoulv", zhenfu |-> "zhenfu"]

FinalMapping ==
    [riqi |-> "date", shoupan |-> "close", zhangdiefu |-> "pct_chg",
     chengjiaoe |-> "amount", huanshoulv |-> "turnover_rate", zhenfu |-> "amplitude"]

FinalCols ==
    {"date", "code", "name", "close", "pct_chg", "amount", "turnover_rate",
     "amplitude", "vol_ratio"}

\* the columns lines 50-67 read; a missing one raises KeyError
NeededCols == {"riqi", "shoupan", "zhangdiefu", "chengjiaoe", "huanshoulv", "zhenfu"}

\* PctChange with 0 for the first row
PctChangeFilled(rows) ==
    [k \in 1..Len(rows) |->
        IF k = 1 THEN <<0, 1>>
        ELSE Rat(100 * (rows[k]["shoupan"] - rows[k - 1]["shoupan"]),
                 rows[k - 1]["shoupan"])]

\* Series.pct_change() * 100 of column shoupan
PctChange(rows) ==
    [k \in 1..Len(rows) |->
        IF k = 1 THEN NaN
        ELSE Rat(100 * (rows[k]["shoupan"] - rows[k - 1]["shoupan"]),
                 rows[k - 1]["shoupan"])]

\* the index branch, lines 27-31
NormalizeIndex(raw) ==
    LET d1 == Rename(raw, IndexMapping)
        d2 == SetCol(d1, "zhangdiefu", PctChange(d1.rows))
        d3 == SetCol(d2, "huanshoulv", [k \in 1..Len(d2.rows) |-> 0])
    IN  SetCol(d3, "zhenfu", [k \in 1..Len(d3.rows) |-> 0])

\* the fund and the equity branch, lines 34-45
NormalizeFund(raw) == Rename(raw, FundMapping)

\* InRange without the lower end of the range
InRangeToEnd(rows, start_date, end_date) ==
    LET hi == StrftimeIso(ToDatetimeCompact(end_date))
    IN  SelectSeq(rows, LAMBDA r : IsoLeq(r["riqi"], hi))

\* InRange without the upper end of the range
InRangeFromStart(rows, start_date, end_date) ==
    LET lo == StrftimeIso(ToDatetimeCompact(start_date))
    IN  SelectSeq(rows, LAMBDA r : IsoLeq(lo, r["riqi"]))

\* the rows whose canonical date is inside [start_date, end_date], lines 52-53
InRange(rows, start_date, end_date) ==
    LET lo == StrftimeIso(ToDatetimeCompact(start_date))
        hi == StrftimeIso(ToDatetimeCompact(end_date))
    IN  SelectSeq(rows, LAMBDA r : IsoLeq(lo, r["riqi"]) /\ IsoLeq(r["riqi"], hi))

RECURSIVE SumAmount(_, _, _)
SumAmount(rows, lo, hi) ==
    IF lo > hi THEN 0 ELSE rows[hi]["chengjiaoe"] + SumAmount(rows, lo, hi - 1)

\* VolRatio with rolling(window=5, min_periods=1): the mean of the rows there are
VolRatioMinPeriods1(rows, k) ==
    LET lo == IF k < Window THEN 1 ELSE k - Window + 1
        s  == SumAmount(rows, lo, k)
    IN  IF s = 0 THEN Neutral
        ELSE RoundHundredths((k - lo + 1) * rows[k]["chengjiaoe"], s)

\* (amount / amount.rolling(window=5).mean()).round(2).fillna(1.0) at row k,
\* in hundredths
VolRatio(rows, k) ==
    IF k < Window THEN Neutral
    ELSE LET s == SumAmount(rows, k - Window + 1, k)
         IN  IF s = 0 THEN Neutral
             ELSE RoundHundredths(Window * rows[k]["chengjiaoe"], s)

\* Clean without the filter of lines 52-53
CleanUnfiltered(df, symbol, name, start_date, end_date) ==
    LET d1 == SetCol(df, "riqi", [k \in 1..Len(df.rows) |-> StrftimeIso(df.rows[k]["riqi"])])
        d3 == SetCol(d1, "vol_ratio", [k \in 1..Len(d1.rows) |-> VolRatio(d1.rows, k)])
        d4 == SetCol(d3, "code", [k \in 1..Len(d3.rows) |-> symbol])
        d5 == SetCol(d4, "name", [k \in 1..Len(d4.rows) |-> name])
    IN  Project(Rename(d5, FinalMapping), FinalCols)

\* Clean with the rolling mean taken before the rows are filtered
CleanRollingFirst(df, symbol, name, start_date, end_date) ==
    LET d1 == SetCol(df, "riqi", [k \in 1..Len(df.rows) |-> StrftimeIso(df.rows[k]["riqi"])])
        d2 == SetCol(d1, "vol_ratio", [k \in 1..Len(d1.rows) |-> VolRatio(d1.rows, k)])
        d3 == [cols |-> d2.cols, rows |-> InRange(d2.rows, start_date, end_date)]
        d4 == SetCol(d3, "code", [k \in 1..Len(d3.rows) |-> symbol])
        d5 == SetCol(d4, "name", [k \in 1..Len(d4.rows) |-> name])
    IN  Project(Rename(d5, FinalMapping), FinalCols)

\* lines 50-67
Clean(df, symbol, name, start_date, end_date) ==
    LET d1 == SetCol(df, "riqi", [k \in 1..Len(df.rows) |-> StrftimeIso(df.rows[k]["riqi"])])
        d2 == [cols |-> d1.cols, rows |-> InRange(d1.rows, start_date, end_date)]
        d3 == SetCol(d2, "vol_ratio", [k \in 1..Len(d2.rows) |-> VolRatio(d2.rows, k)])
        d4 == SetCol(d3, "code", [k \in 1..Len(d3.rows) |-> symbol])
        d5 == SetCol(d4, "name", [k \in 1..Len(d4.rows) |-> name])
    IN  Project(Rename(d5, FinalMapping), FinalCols)

\* fetch_data, given what the provider answers: [kind |-> "raise"] or
\* [kind |-> "df", df |-> a DataFrame]. The result is the DataFrame returned,
\* with the branch taken and whether the except clause printed.
fetch_data(symbol, name, start_date, end_date, answer) ==
    LET cat    == Category(symbol)
        Failed == [path |-> cat, raised |-> TRUE, df |-> EmptyDataFrame]
    IN  IF answer.kind = "raise" THEN Failed
        ELSE IF cat = "index" /\ "shoupan" \notin Rename(answer.df, IndexMapping).cols
        THEN Failed
        ELSE LET df == IF cat = "index" THEN NormalizeIndex(answer.df)
                       ELSE NormalizeFund(answer.df)
             IN  IF IsEmpty(df)
                 THEN [path |-> cat, raised |-> FALSE, df |-> EmptyDataFrame]
                 ELSE IF ~(NeededCols \subseteq df.cols) THEN Failed
                 ELSE [path |-> cat, raised |-> FALSE,
                       df |-> Clean(df, symbol, name, start_date, end_date)]

-----------------------------------------------------------------------------
(* The provider (akshare) and the market it reports *)

SH000001 == <<"s", "h", "0", "0", "0", "0", "0", "1">>
F513100 == <<"5", "1", "3", "1", "0", "0">>

\* Thursday 2024-02-29; the day after is 2024-03-01
T0 == DaysFromCivil(2024, 2, 29)

TradingDays == {T0 - 31, T0 - 30, T0 - 3, T0 - 2, T0 - 1, T0, T0 + 1}

\* the provider already reports a day that, on the local clock, is tomorrow
Available == {d \in TradingDays : d <= today + 1}

RECURSIVE SortedSeq(_)
SortedSeq(S) ==
    IF S = {} THEN << >>
    ELSE LET m == CHOOSE x \in S : \A y \in S : x <= y
         IN  <<m>> \o SortedSeq(S \ {m})

Close(symbol, day) == 10 + ((day + Len(symbol)) % 3)
Amount(symbol, day) == 100 * (1 + ((day + Len(symbol)) % 4))

\* a row of stock_zh_index_daily_em
IndexRow(symbol, day) ==
    [date |-> day, open |-> Close(symbol, day - 1), close |-> Close(symbol, day),
     amount |-> Amount(symbol, day)]

\* a row of fund_etf_hist_em and of stock_zh_a_hist
FundRow(symbol, day) ==
    [riqi |-> day, kaipan |-> Close(symbol, day - 1), shoupan |-> Close(symbol, day),
     zhangdiefu |-> Rat(100 * (Close(symbol, day) - Close(symbol, day - 1)),
                        Close(symbol, day - 1)),
     chengjiaoe |-> Amount(symbol, day), huanshoulv |-> 1 + (day % 2),
     zhenfu |-> 2 + (day % 2)]

IndexCols == {"date", "open", "close", "amount"}
FundCols == {"riqi", "kaipan", "shoupan", "zhangdiefu", "chengjiaoe", "huanshoulv", "zhenfu"}

Modes == {"exact", "all", "stale", "empty", "schema", "raise"}

\* What the provider answers to a call. stock_zh_index_daily_em takes no date
\* range and answers with the whole history; the other two take one, and may
\* still answer with more ("all"). A provider that has published no day of
\* the range yet answers with the days before it ("stale"); one that
\* malfunctions may answer with the last day twice ("twice").
Provider(symbol, start_date, end_date, mode) ==
    LET lo   == ToDatetimeCompact(start_date)
        hi   == ToDatetimeCompact(end_date)
        days == IF mode = "stale" THEN {d \in Available : d < lo}
                ELSE IF mode = "all" \/ Category(symbol) = "index" THEN Available
                ELSE {d \in Available : lo <= d /\ d <= hi}
        asc  == SortedSeq(days)
        seq  == IF mode = "twice" /\ asc # << >> THEN Append(asc, asc[Len(asc)]) ELSE asc
    IN  CASE mode = "raise"  -> [kind |-> "raise", df |-> EmptyDataFrame]
          [] mode = "empty"  -> [kind |-> "df", df |-> EmptyDataFrame]
          [] mode = "schema" -> [kind |-> "df",
                                 df |-> [cols |-> {"item"}, rows |-> <<[item |-> 0]>>]]
          [] OTHER ->
               IF Category(symbol) = "index"
               THEN [kind |-> "df",
                     df |-> [cols |-> IndexCols,
                             rows |-> [k \in 1..Len(seq) |-> IndexRow(symbol, seq[k])]]]
               ELSE [kind |-> "df",
                     df |-> [cols |-> FundCols,
                             rows |-> [k \in 1..Len(seq) |-> FundRow(symbol, seq[k])]]]

-----------------------------------------------------------------------------
(* The store *)

Lookback == 30

None == << >>

Key(r) == <<r["date"], r["code"]>>

RowSet(df) == {df.rows[k] : k \in 1..Len(df.rows)}

\* SELECT MIN(date) FROM daily_records WHERE name = ?
MinDate(table, name) ==
    LET ds == {r["date"] : r \in {x \in table : x["name"] = name}}
    IN  IF ds = {} THEN None
        ELSE CHOOSE d \in ds : \A e \in ds : IsoLeq(d, e)

\* SELECT MAX(date) FROM daily_records WHERE name = ?
MaxDate(table, name) ==
    LET ds == {r["date"] : r \in {x \in table : x["name"] = name}}
    IN  IF ds = {} THEN None
        ELSE CHOOSE d \in ds : \A e \in ds : IsoLeq(e, d)

\* to_sql that writes the first row of the frame only
to_sql_first_row(table, df) ==
    IF \E r \in table : Key(r) = Key(df.rows[1]) THEN [raised |-> TRUE, table |-> table]
    ELSE [raised |-> FALSE, table |-> table \cup {df.rows[1]}]

\* DataFrame.to_sql('daily_records', conn, if_exists='append'): one INSERT
\* per row inside one transaction; a row whose (date, code) is taken raises
\* sqlite3.IntegrityError and the transaction is rolled back
to_sql(table, df) ==
    LET taken == \E k \in 1..Len(df.rows) :
                    \/ \E r \in table : Key(r) = Key(df.rows[k])
                    \/ \E j \in 1..(k - 1) : Key(df.rows[j]) = Key(df.rows[k])
    IN  IF taken THEN [raised |-> TRUE, table |-> table]
        ELSE [raised |-> FALSE, table |-> table \cup RowSet(df)]

\* DROP TABLE, then CREATE TABLE
init_db_recreate(table) == {}

\* CREATE TABLE IF NOT EXISTS daily_records
init_db(table) == table

-----------------------------------------------------------------------------
(* sync_data *)

SSE == <<SH000001, "ShangZheng">>
NDX == <<F513100, "NaZhiETF">>
NDXRenamed == <<F513100, "NaZhi100">>

TargetLists == {<<SSE, NDX>>, <<NDX, SSE>>, <<SSE, NDXRenamed>>}

code == target_list[idx][1]
name == target_list[idx][2]

\* StartBoundary without the day added to the checkpoint
StartBoundaryAtCheckpoint(last_date, now) ==
    IF last_date # None THEN StrftimeCompact(StrptimeIso(last_date))
    ELSE StrftimeCompact(now - Lookback)

\* lines 80-83
StartBoundary(last_date, now) ==
    IF last_date # None THEN StrftimeCompact(StrptimeIso(last_date) + 1)
    ELSE StrftimeCompact(now - Lookback)

\* EndBoundary a day ahead of the clock
EndBoundaryNextDay(now) == StrftimeCompact(now + 1)

\* line 85
EndBoundary(now) == StrftimeCompact(now)

Line(kind, n) == [idx |-> idx, kind |-> kind, n |-> n]

\* what a call of the provider amounted to: rows, nothing, or a failure
Answer(mode) ==
    CASE mode \in {"exact", "all"} -> "rows"
      [] mode \in {"empty", "stale"} -> "empty"
      [] mode = "twice" -> "twice"
      [] OTHER -> "fail"

Call(answer, n) == [answer |-> answer, n |-> n]

NoAnswer == [kind |-> "df", df |-> EmptyDataFrame]

\* Continue that takes the same instrument again
ContinueRetry ==
    /\ idx' = idx
    /\ pc' = "resolve"
    /\ resp' = NoAnswer
    /\ path' = "none"
    /\ data' = EmptyDataFrame

\* the for loop moves on, or sync_data returns; the loop's locals are
\* assigned again before they are read
Continue ==
    /\ idx' = idx + 1
    /\ pc' = IF idx + 1 > Len(target_list) THEN "done" ELSE "resolve"
    /\ resp' = NoAnswer
    /\ path' = "none"
    /\ data' = EmptyDataFrame

Init ==
    /\ store = {}
    /\ today = T0
    /\ pc = "constructed"
    /\ target_list = << >>
    /\ idx = 1
    /\ start_dt = 0
    /\ end_dt = 0
    /\ resp = NoAnswer
    /\ path = "none"
    /\ data = EmptyDataFrame
    /\ log = << >>
    /\ txn = 0
    /\ hist = [cycles |-> 0, ticks |-> 0, store0 |-> {}, day0 |-> T0,
               calls |-> << >>, plist |-> << >>, pday0 |-> T0, pcalls |-> << >>,
               owed |-> FALSE, killed |-> FALSE, resumed |-> FALSE, base |-> {},
               fixed |-> TRUE]

\* the collector is run again: DataManager() calls _init_db
InitDb ==
    /\ pc \in {"done", "crashed", "killed"}
    /\ store' = init_db(store)
    /\ pc' = "constructed"
    /\ UNCHANGED <<today, target_list, idx, start_dt, end_dt, resp, path, data, log, txn, hist>>

\* a cycle over `list` resumes the cycle before it: that one was killed, ran
\* over the same list, and the provider had answered its calls with rows
Resumes(list) ==
    /\ hist.killed
    /\ list = target_list
    /\ \A k \in 1..Len(hist.calls) : hist.calls[k].answer \in {"rows", "current"}

\* sync_data(target_list) is called
StartSync(list) ==
    /\ pc = "constructed"
    /\ hist.cycles < MaxCycles
    /\ target_list' = list
    /\ idx' = 1
    /\ pc' = "resolve"
    /\ log' = << >>
    /\ start_dt' = 0
    /\ end_dt' = 0
    /\ hist' = [hist EXCEPT !.cycles = @ + 1, !.store0 = store, !.day0 = today,
                            !.calls = << >>, !.plist = target_list,
                            !.pday0 = hist.day0, !.pcalls = hist.calls,
                            !.owed = FALSE, !.killed = FALSE,
                            !.resumed = Resumes(list),
                            !.base = IF Resumes(list) THEN hist.base ELSE store,
                            !.fixed = hist.cycles = 0 \/ (hist.fixed /\ list = target_list)]
    /\ UNCHANGED <<store, today, resp, path, data, txn>>

\* lines 77-90: the checkpoint, the boundaries, the up-to-date test
Resolve ==
    /\ pc = "resolve"
    /\ LET last_date == MaxDate(store, name)
           s == StartBoundary(last_date, today)
           e == EndBoundary(today)
       IN  /\ start_dt' = s
           /\ end_dt' = e
           /\ IF s > e
              THEN /\ log' = Append(log, Line("current", 0))
                   /\ hist' = [hist EXCEPT !.calls = Append(@, Call("current", 0))]
                   /\ Continue
              ELSE /\ log' = Append(log, Line("collect", 0))
                   /\ pc' = "fetch"
                   /\ UNCHANGED <<idx, hist, resp, path, data>>
    /\ UNCHANGED <<store, today, target_list, txn>>

\* line 91: data = self.fetch_data(code, name, start_dt, end_dt), the provider
\* answering with `answer`
CallFetchData(answer, what) ==
    /\ pc = "fetch"
    /\ LET res == fetch_data(code, name, start_dt, end_dt, answer)
       IN  /\ resp' = answer
           /\ path' = res.path
           /\ data' = res.df
           /\ log' = IF res.raised THEN Append(log, Line("error", 0)) ELSE log
           /\ hist' = [hist EXCEPT !.calls = Append(@, Call(what, Len(res.df.rows))),
                                   !.owed = TRUE]
    /\ pc' = "persist"
    /\ UNCHANGED <<store, today, target_list, idx, start_dt, end_dt, txn>>

\* the provider answers in one of its modes
Fetch(mode) == CallFetchData(Provider(code, start_dt, end_dt, mode), Answer(mode))

\* lines 93-95
Persist ==
    /\ pc = "persist"
    /\ IF ~IsEmpty(data)
       THEN LET res == to_sql(store, data)
            IN  IF res.raised
                THEN /\ pc' = "crashed"
                     /\ UNCHANGED <<store, log>>
                ELSE /\ store' = res.table
                     /\ log' = Append(log, Line("saved", Len(data.rows)))
                     /\ pc' = "sleep"
       ELSE /\ pc' = "sleep"
            /\ UNCHANGED <<store, log>>
    /\ UNCHANGED <<today, target_list, idx, start_dt, end_dt, resp, path, data, txn, hist>>

\* line 96: time.sleep(0.5)
Sleep ==
    /\ pc = "sleep"
    /\ hist' = [hist EXCEPT !.owed = FALSE]
    /\ Continue
    /\ UNCHANGED <<store, today, target_list, start_dt, end_dt, log, txn>>

\* Midnight passes on the local clock. The clock is read at lines 83-85 and
\* the provider's answer depends on the day of the call, so midnight passing
\* anywhere else is midnight passing before the next of these.
Tick ==
    /\ pc \in {"constructed", "resolve", "fetch"}
    /\ hist.ticks < MaxTicks
    /\ today' = today + 1
    /\ hist' = [hist EXCEPT !.ticks = @ + 1]
    /\ UNCHANGED <<store, pc, target_list, idx, start_dt, end_dt, resp, path, data, log, txn>>

Next ==
    \/ InitDb
    \/ \E list \in TargetLists : StartSync(list)
    \/ Resolve
    \/ \E mode \in Modes : Fetch(mode)
    \/ Persist
    \/ Sleep
    \/ Tick

Spec == Init /\ [][Next]_vars

-----------------------------------------------------------------------------
(* The sync cycle at the grain of the database transaction, with the process *)
(* killed from outside. to_sql inserts the rows of the frame one by one in   *)
(* a transaction of the connection of line 74 and commits after the last.    *)

\* row k of df cannot be inserted: its (date, code) is stored already, or was
\* inserted with an earlier row of the frame
KeyTaken(table, df, k) ==
    \/ \E r \in table : Key(r) = Key(df.rows[k])
    \/ \E j \in 1..(k - 1) : Key(df.rows[j]) = Key(df.rows[k])

\* rows 1..k of df
Inserted(df, k) == {df.rows[j] : j \in 1..k}

\* the commit at the end of to_sql, k rows of df inserted
Commit(table, df, k) == table \cup Inserted(df, k)

\* a rollback that keeps the rows inserted before the failing one
RollbackKeepsRows(table, df, k) == table \cup Inserted(df, k)

\* the rollback on sqlite3.IntegrityError, k rows of df inserted
Rollback(table, df, k) == table

\* a recovery that keeps the rows inserted before the kill
RecoverKeepsRows(table, df, k) == table \cup Inserted(df, k)

\* what the next connection finds after the process died with k rows of df
\* inserted and not committed: sqlite rolls the journal back
Recover(table, df, k) == table

\* line 94: one INSERT of to_sql
InsertRow ==
    /\ pc = "persist"
    /\ ~IsEmpty(data)
    /\ txn < Len(data.rows)
    /\ IF KeyTaken(store, data, txn + 1)
       THEN /\ store' = Rollback(store, data, txn)
            /\ txn' = 0
            /\ pc' = "crashed"
       ELSE /\ txn' = txn + 1
            /\ UNCHANGED <<store, pc>>
    /\ UNCHANGED <<today, target_list, idx, start_dt, end_dt, resp, path, data, log, hist>>

\* lines 94-95: every row is inserted, to_sql commits and the count is printed
CommitRows ==
    /\ pc = "persist"
    /\ ~IsEmpty(data)
    /\ txn = Len(data.rows)
    /\ store' = Commit(store, data, txn)
    /\ txn' = 0
    /\ log' = Append(log, Line("saved", Len(data.rows)))
    /\ pc' = "sleep"
    /\ UNCHANGED <<today, target_list, idx, start_dt, end_dt, resp, path, data, hist>>

\* line 93: the frame is empty
NoRows ==
    /\ pc = "persist"
    /\ IsEmpty(data)
    /\ pc' = "sleep"
    /\ UNCHANGED <<store, today, target_list, idx, start_dt, end_dt, resp, path, data, log,
                   txn, hist>>

\* the process is killed inside sync_data: its locals are gone, the lines it
\* printed and the committed rows stay
Kill ==
    /\ pc \in {"resolve", "fetch", "persist", "sleep"}
    /\ store' = Recover(store, data, txn)
    /\ txn' = 0
    /\ pc' = "killed"
    /\ idx' = 1
    /\ start_dt' = 0
    /\ end_dt' = 0
    /\ resp' = NoAnswer
    /\ path' = "none"
    /\ data' = EmptyDataFrame
    /\ hist' = [hist EXCEPT !.killed = TRUE]
    /\ UNCHANGED <<today, target_list, log>>

\* the modes of the provider, the malfunction included
KillModes == Modes \cup {"twice"}

NextKill ==
    \/ InitDb
    \/ \E list \in TargetLists : StartSync(list)
    \/ Resolve
    \/ \E mode \in KillModes : Fetch(mode)
    \/ InsertRow
    \/ CommitRows
    \/ NoRows
    \/ Sleep
    \/ Kill

SpecKill == Init /\ [][NextKill]_vars

-----------------------------------------------------------------------------
(* fetch_data on its own: one call, on an instrument, a window and an answer *)
(* of the provider drawn from bounded sets                                   *)

ProbeCodes ==
    {SH000001, F513100,
     <<"s", "z", "3", "9", "9", "0", "0", "1">>, <<"1", "5", "9", "9", "1", "9">>,
     <<"6", "0", "0", "5", "1", "9">>, <<"0", "0", "0", "0", "0", "1">>,
     <<"s", "h", "6", "0", "0", "0", "0", "0">>, <<"s", "z", "0", "0", "0", "0", "0", "1">>,
     <<"3", "0", "0", "7", "5", "0">>, << >>, <<"s">>, <<"s", "h">>, <<"s", "h", "0">>,
     <<"s", "z", "3">>, <<"5">>, <<"1">>, <<"0">>}

LongCodes == {SH000001, F513100, <<"6", "0", "0", "5", "1", "9">>}

\* the quotes of a day: <<close, amount>>
Quotes == {<<10, 0>>, <<11, 100>>, <<12, 300>>}

RECURSIVE SeqsUpTo(_, _)
SeqsUpTo(S, n) ==
    IF n = 0 THEN {<< >>}
    ELSE LET shorter == SeqsUpTo(S, n - 1)
         IN  shorter \cup {Append(q, x) : q \in {t \in shorter : Len(t) = n - 1}, x \in S}

\* the answer of the API that fetch_data calls for `symbol`: one row for each
\* of the Len(quotes) days up to T0
ProbeAnswer(symbol, quotes) ==
    LET day(k) == T0 - Len(quotes) + k
    IN  IF Category(symbol) = "index"
        THEN [kind |-> "df",
              df |-> [cols |-> IndexCols,
                      rows |-> [k \in 1..Len(quotes) |->
                                  [date |-> day(k), open |-> 10, close |-> quotes[k][1],
                                   amount |-> quotes[k][2]]]]]
        ELSE [kind |-> "df",
              df |-> [cols |-> FundCols,
                      rows |-> [k \in 1..Len(quotes) |->
                                  [riqi |-> day(k), kaipan |-> 10, shoupan |-> quotes[k][1],
                                   zhangdiefu |-> Rat(quotes[k][2] + k, 7),
                                   chengjiaoe |-> quotes[k][2],
                                   huanshoulv |-> 1 + (k % 2), zhenfu |-> 2 + (k % 3)]]]]

ProbeAnswers(symbol) ==
    {ProbeAnswer(symbol, q) :
        q \in SeqsUpTo(Quotes, IF symbol \in LongCodes THEN MaxRows ELSE 1)}
    \cup {Provider(symbol, 0, 0, m) : m \in {"empty", "schema", "raise"}}

\* <<start_dt, end_dt>>: all of the answer's days, all but the first, or
\* three days that end the day before the last
ProbeWindows ==
    {<<StrftimeCompact(T0 - MaxRows), StrftimeCompact(T0)>>,
     <<StrftimeCompact(T0 - MaxRows + 2), StrftimeCompact(T0)>>,
     <<StrftimeCompact(T0 - 3), StrftimeCompact(T0 - 1)>>}

InitFetch ==
    /\ store = {}
    /\ today = T0
    /\ pc = "fetch"
    /\ \E symbol \in ProbeCodes :
          /\ target_list = << <<symbol, "Probe">> >>
          /\ resp \in ProbeAnswers(symbol)
    /\ idx = 1
    /\ \E w \in ProbeWindows : start_dt = w[1] /\ end_dt = w[2]
    /\ path = "none"
    /\ data = EmptyDataFrame
    /\ log = << >>
    /\ txn = 0
    /\ hist = [cycles |-> 1, ticks |-> 0, store0 |-> {}, day0 |-> T0,
               calls |-> << >>, plist |-> << >>, pday0 |-> T0, pcalls |-> << >>,
               owed |-> FALSE, killed |-> FALSE, resumed |-> FALSE, base |-> {},
               fixed |-> TRUE]

\* the call, and the rest of the loop body after it
NextFetch ==
    \/ CallFetchData(resp, "probe")
    \/ Persist
    \/ Sleep

SpecFetch == InitFetch /\ [][NextFetch]_vars

-----------------------------------------------------------------------------
(* Properties of fetch_data, checked under SpecFetch *)

Rows == data.rows

\* v hundredths is a / (s / 5) rounded to two decimals, halves to even
IsRoundedRatio(v, a, s) ==
    LET err == Abs(v * s - 500 * a)
    IN  /\ 2 * err <= s
        /\ 2 * err = s => v % 2 = 0

\* the amounts of row k and of the four rows before it, added up
Trailing5(k) ==
    Rows[k]["amount"] + Rows[k - 1]["amount"] + Rows[k - 2]["amount"]
        + Rows[k - 3]["amount"] + Rows[k - 4]["amount"]

\* C6 as amended: a row of the batch fetch_data returns that has at least 4
\* rows before it, and a non-zero mean of the 5 amounts that end with its own,
\* has vol_ratio = round(amount / that mean, 2); every other row has vol_ratio
\* exactly 1.0.
C6_RollingRatio ==
    pc = "persist" =>
        \A k \in 1..Len(Rows) :
            IF k - 1 >= 4 /\ Trailing5(k) # 0
            THEN IsRoundedRatio(Rows[k]["vol_ratio"], Rows[k]["amount"], Trailing5(k))
            ELSE Rows[k]["vol_ratio"] = 100

\* C6 as claimed: the ratio is computed when at least 5 rows precede the row,
\* and the row has exactly 1.0 otherwise.
C6_RollingRatioAsClaimed ==
    pc = "persist" =>
        \A k \in 1..Len(Rows) :
            IF k - 1 >= 5
            THEN Trailing5(k) # 0 =>
                    IsRoundedRatio(Rows[k]["vol_ratio"], Rows[k]["amount"], Trailing5(k))
            ELSE Rows[k]["vol_ratio"] = 100

\* a batch of 6 rows whose 5th and 6th row have computed ratios other than
\* 1.0, one of them a rounded one
C6_Witness ==
    /\ pc = "persist"
    /\ Len(Rows) >= 6
    /\ Rows[5]["vol_ratio"] # 100
    /\ Rows[6]["vol_ratio"] # 100
    /\ (500 * Rows[6]["amount"]) % Trailing5(6) # 0

\* the classification the two example codes of the claim follow
ExpectedPath(c) ==
    IF Len(c) >= 3 /\ c[1] = "s" /\ ((c[2] = "h" /\ c[3] = "0") \/ (c[2] = "z" /\ c[3] = "3"))
    THEN "index"
    ELSE IF Len(c) >= 1 /\ (c[1] = "5" \/ c[1] = "1") THEN "fund"
    ELSE "equity"

\* the position in the provider's answer of the row dated like canonical row r
RawAt(r, col) ==
    CHOOSE j \in 1..Len(resp.df.rows) : resp.df.rows[j][col] = StrptimeIso(r["date"])

\* C7: every call of fetch_data takes exactly one of the three branches, which
\* one depending on the code's prefix alone; for "sh000001" it is the index
\* branch (turnover_rate and amplitude 0, pct_chg the day-over-day change of
\* the provider's close), for "513100" the fund branch (close, pct_chg,
\* amount, turnover_rate and amplitude are the provider's).
C7_Routing ==
    pc = "persist" =>
        /\ path \in {"index", "fund", "equity"}
        /\ path = ExpectedPath(code)
        /\ code = SH000001 =>
              /\ path = "index"
              /\ \A k \in 1..Len(Rows) :
                    LET j == RawAt(Rows[k], "date")
                        raw == resp.df.rows
                    IN  /\ Rows[k]["turnover_rate"] = 0
                        /\ Rows[k]["amplitude"] = 0
                        /\ Rows[k]["close"] = raw[j]["close"]
                        /\ Rows[k]["pct_chg"] =
                              IF j = 1 THEN NaN
                              ELSE Rat(100 * (raw[j]["close"] - raw[j - 1]["close"]),
                                       raw[j - 1]["close"])
        /\ code = F513100 =>
              /\ path = "fund"
              /\ \A k \in 1..Len(Rows) :
                    LET raw == resp.df.rows[RawAt(Rows[k], "riqi")]
                    IN  /\ Rows[k]["close"] = raw["shoupan"]
                        /\ Rows[k]["pct_chg"] = raw["zhangdiefu"]
                        /\ Rows[k]["amount"] = raw["chengjiaoe"]
                        /\ Rows[k]["turnover_rate"] = raw["huanshoulv"]
                        /\ Rows[k]["amplitude"] = raw["zhenfu"]

\* the index code of the claim has been fetched, and a row of its batch has a
\* day-over-day change that is neither absent nor zero
C7_Witness ==
    /\ pc = "persist" /\ code = SH000001 /\ Len(Rows) >= 2
    /\ Rows[2]["pct_chg"] # NaN /\ Rows[2]["pct_chg"] # <<0, 1>>

\* the call of fetch_data is over and the frame it returned is at hand
Returned == pc \in {"persist", "sleep"}

\* the percent change from close a to close b
Change(a, b) == Rat(100 * (b - a), a)

\* C17 as amended: on the index path every row fetch_data returns has
\* turnover_rate 0 and amplitude 0, and its pct_chg is the percent change of
\* close from the row before it in the provider's history, which for the
\* first row returned is the last row before the window; only a row that is
\* the first of the provider's history has no pct_chg. Such a row is returned
\* and stored like any other, and no error is reported.
C17_IndexPath ==
    (Returned /\ path = "index") =>
        /\ \A k \in 1..Len(Rows) :
              LET j   == RawAt(Rows[k], "date")
                  raw == resp.df.rows
              IN  /\ Rows[k]["turnover_rate"] = 0
                  /\ Rows[k]["amplitude"] = 0
                  /\ Rows[k]["pct_chg"] =
                        IF j = 1 THEN NaN ELSE Change(raw[j - 1]["close"], raw[j]["close"])
                  /\ k > 1 => Rows[k]["pct_chg"] = Change(Rows[k - 1]["close"], Rows[k]["close"])
        /\ ("date" \in resp.df.cols /\ "close" \in resp.df.cols /\ "amount" \in resp.df.cols) =>
              \A n \in 1..Len(log) : log[n].kind # "error"
        /\ pc = "sleep" => RowSet(data) \subseteq store

\* C17 as claimed: the pct_chg of a row is the change from the row before it
\* in the batch fetch_data returns, and the first row of the batch has none.
C17_IndexPathAsClaimed ==
    (Returned /\ path = "index") =>
        /\ \A k \in 1..Len(Rows) :
              /\ Rows[k]["turnover_rate"] = 0
              /\ Rows[k]["amplitude"] = 0
              /\ Rows[k]["pct_chg"] =
                    IF k = 1 THEN NaN ELSE Change(Rows[k - 1]["close"], Rows[k]["close"])
        /\ pc = "sleep" => RowSet(data) \subseteq store

\* a batch of an index has been stored whose first row has a pct_chg, the
\* change from a row before the window
C17_Witness ==
    /\ pc = "sleep" /\ path = "index"
    /\ Len(Rows) >= 2
    /\ RowSet(data) \subseteq store
    /\ RawAt(Rows[1], "date") > 1
    /\ Rows[1]["pct_chg"] \notin {NaN, <<0, 1>>}

\* a batch of an index has been stored whose first row is the first row of
\* the provider's history and has no pct_chg
AbsentPctChgStored ==
    /\ pc = "sleep" /\ path = "index"
    /\ Len(Rows) >= 2
    /\ RowSet(data) \subseteq store
    /\ Rows[1]["pct_chg"] = NaN

-----------------------------------------------------------------------------
(* Properties of sync_data, checked under Spec *)

\* a calendar, day by day
DaysIn(y, m) ==
    IF m = 2 THEN (IF (y % 4 = 0 /\ y % 100 # 0) \/ y % 400 = 0 THEN 29 ELSE 28)
    ELSE IF m \in {4, 6, 9, 11} THEN 30 ELSE 31

NextDay(c) ==
    IF c[3] < DaysIn(c[1], c[2]) THEN <<c[1], c[2], c[3] + 1>>
    ELSE IF c[2] < 12 THEN <<c[1], c[2] + 1, 1>>
    ELSE <<c[1] + 1, 1, 1>>

PrevDay(c) ==
    IF c[3] > 1 THEN <<c[1], c[2], c[3] - 1>>
    ELSE IF c[2] > 1 THEN <<c[1], c[2] - 1, DaysIn(c[1], c[2] - 1)>>
    ELSE <<c[1] - 1, 12, 31>>

RECURSIVE Shift(_, _)
Shift(c, n) ==
    IF n = 0 THEN c
    ELSE IF n > 0 THEN Shift(NextDay(c), n - 1)
    ELSE Shift(PrevDay(c), n + 1)

\* the date of the local clock: the model starts on 2024-02-29
CurrentDate == Shift(<<2024, 2, 29>>, today - T0)

Digits(c) == c[1] * 10000 + c[2] * 100 + c[3]

DatesUnder(n) == {r["date"] : r \in {x \in store : x["name"] = n}}

\* the latest date stored under a name
Latest(n) == CHOOSE d \in DatesUnder(n) : \A e \in DatesUnder(n) : Digits(e) <= Digits(d)

\* the step of sync_data that resolves the boundaries of the current instrument
ResolveStep == pc = "resolve" /\ (pc' = "fetch" \/ idx' = idx + 1)

\* C3: when sync_data resolves an instrument, the start boundary is the day
\* after the latest date stored under the instrument's name, or 30 days before
\* the current date when nothing is stored under that name; the end boundary
\* is the current date.
C3_Checkpoint ==
    [][ResolveStep =>
          /\ end_dt' = Digits(CurrentDate)
          /\ start_dt' = IF DatesUnder(name) # {} THEN Digits(NextDay(Latest(name)))
                         ELSE Digits(Shift(CurrentDate, -30))]_vars

\* an instrument is about to be fetched from the day after its checkpoint,
\* 2024-03-01 after 2024-02-29
C3_Witness ==
    /\ pc = "fetch"
    /\ DatesUnder(name) # {}
    /\ Latest(name) = <<2024, 2, 29>>
    /\ start_dt = 20240301

\* C5: every row sync_data persists is a row of the instrument being synced
\* whose date is inside the window [start_dt, end_dt] requested for it.
C5_NoLookAhead ==
    [][\A r \in store' \ store :
          /\ r["code"] = code
          /\ start_dt <= Digits(r["date"])
          /\ Digits(r["date"]) <= end_dt]_vars

\* rows have been persisted from an answer that held rows before the window
\* and rows after it
C5_Witness ==
    /\ pc = "sleep"
    /\ Len(data.rows) > 0
    /\ RowSet(data) \subseteq store
    /\ \E j \in 1..Len(resp.df.rows) :
          Digits(CurrentDate) < Digits(Shift(<<2024, 2, 29>>, resp.df.rows[j][IF path = "index" THEN "date" ELSE "riqi"] - T0))
    /\ \E j \in 1..Len(resp.df.rows) :
          Digits(Shift(<<2024, 2, 29>>, resp.df.rows[j][IF path = "index" THEN "date" ELSE "riqi"] - T0)) < start_dt

\* C8: no step of _init_db or sync_data removes or changes a stored row; rows
\* are added only by the to_sql of an instrument whose fetch returned rows,
\* and are the rows of that frame.
C8_AppendOnly ==
    [][/\ store \subseteq store'
       /\ store' # store =>
             /\ pc = "persist" /\ pc' = "sleep"
             /\ Len(data.rows) > 0
             /\ store' = store \cup RowSet(data)]_vars

\* the collector has been started again on a store that holds rows
C8_Witness == pc = "constructed" /\ store # {} /\ hist.cycles >= 1

\* the sync cycle has ended: sync_data returned, or an exception left it
Ended == pc \in {"done", "crashed"}

\* the rows this cycle has added for the instrument at position i
Added(i) == {r \in store \ hist.store0 : r["code"] = target_list[i][1]}

\* the lines of kind k printed for the instrument at position i
Lines(i, k) == {j \in 1..Len(log) : log[j].idx = i /\ log[j].kind = k}

\* this cycle ran over the list of the cycle before it, on the same day, and
\* every call of the provider was answered as in that cycle
SecondRun ==
    /\ hist.cycles >= 2
    /\ target_list = hist.plist
    /\ today = hist.pday0
    /\ \A k \in 1..Len(hist.calls) :
          hist.calls[k].answer # "current" =>
              /\ k <= Len(hist.pcalls)
              /\ hist.pcalls[k].answer = hist.calls[k].answer

\* C1: a sync cycle that follows a cycle over the same target list, on the
\* same day and with the provider answering as before, ends with the stored
\* rows it started with.
C1_Idempotent == (Ended /\ SecondRun) => store = hist.store0

\* a second run has ended; the first one had stored rows for both instruments,
\* which the second run found up to date
C1_Witness ==
    /\ pc = "done"
    /\ SecondRun
    /\ \A i \in 1..Len(target_list) :
          /\ hist.pcalls[i] = Call("rows", 5)
          /\ hist.calls[i] = Call("current", 0)
          /\ Cardinality({r \in store : r["code"] = target_list[i][1]}) = 5

\* to_sql is about to insert a row whose (date, code) is stored already
DuplicateAttempt ==
    /\ pc = "persist"
    /\ \E k \in 1..Len(data.rows) : \E r \in store : Key(r) = Key(data.rows[k])

\* C2: no two stored rows share (date, code), and appending a row whose
\* (date, code) is stored already changes nothing and does not crash the sync.
C2_PrimaryKeyNoOp ==
    [][/\ \A r1, r2 \in store' : Key(r1) = Key(r2) => r1 = r2
       /\ DuplicateAttempt => (store' = store /\ pc' # "crashed")]_vars

\* the first half of C2 on its own: (date, code) is a key of the table
PrimaryKeyUnique == \A r1, r2 \in store : Key(r1) = Key(r2) => r1 = r2

\* the to_sql of the instrument at position i is over
PersistOver(i) == idx > i \/ (idx = i /\ pc \in {"sleep", "crashed"})

\* C4: when the fetch of instrument a raised and the fetch of instrument b of
\* the same cycle returned n rows, the store has gained those n rows of b and
\* none of a, and the cycle has reported a as failed and b as synced(n).
C4_PartialFailureIsolation ==
    \A a, b \in 1..Len(hist.calls) :
        (/\ a # b
         /\ Lines(a, "error") # {}
         /\ hist.calls[b].answer = "rows" /\ hist.calls[b].n >= 1
         /\ PersistOver(a) /\ PersistOver(b))
        => /\ Cardinality(Added(b)) = hist.calls[b].n
           /\ Added(a) = {}
           /\ \E j \in Lines(b, "saved") : log[j].n = hist.calls[b].n

\* C9: a sync cycle ends only after every instrument of the target list has
\* been processed: no error met on the way ends it early.
C9_BestEffort == Ended => idx > Len(target_list)

\* the outcomes reported for the instrument at position i
Outcomes(i) == Lines(i, "current") \cup Lines(i, "error") \cup Lines(i, "saved")

\* C10: a sync cycle that has run to its end has reported exactly one outcome
\* for every instrument of the target list, and a synced(n) outcome counts the
\* rows appended for that instrument.
C10_Report ==
    pc = "done" =>
        \A i \in 1..Len(target_list) :
            /\ Cardinality(Outcomes(i)) = 1
            /\ \A j \in Lines(i, "saved") : log[j].n = Cardinality(Added(i))

\* the step of sync_data that calls fetch_data
FetchStep == pc = "fetch" /\ pc' # "fetch"

\* the entries of hist.calls that stand for a call of fetch_data
Fetched == {k \in 1..Len(hist.calls) : hist.calls[k].answer # "current"}

\* C11: an instrument is skipped exactly when its resolved start boundary is
\* after the end boundary, which is when the latest date stored under its name
\* is on or after the current date; the skip reports "current", calls
\* fetch_data for nothing and leaves the store as it is. Every other
\* instrument gets exactly one call of fetch_data, for the boundaries
\* resolved for it.
C11_UpToDateSkip ==
    [][/\ ResolveStep =>
            /\ (start_dt' > end_dt') <=>
                  (DatesUnder(name) # {} /\ Digits(Latest(name)) >= Digits(CurrentDate))
            /\ store' = store
            /\ IF start_dt' > end_dt'
               THEN /\ idx' = idx + 1 /\ pc' # "fetch"
                    /\ log' = Append(log, Line("current", 0))
                    /\ hist'.calls = Append(hist.calls, Call("current", 0))
                    /\ data' = EmptyDataFrame
               ELSE /\ pc' = "fetch" /\ idx' = idx
                    /\ hist'.calls = hist.calls
       /\ FetchStep =>
            /\ pc' = "persist" /\ idx' = idx
            /\ start_dt' = start_dt /\ end_dt' = end_dt /\ start_dt <= end_dt
            /\ Len(hist'.calls) = Len(hist.calls) + 1
            /\ Fetched' = Fetched \cup {idx}
            /\ data' = fetch_data(code, name, start_dt, end_dt, resp').df
       /\ (~ResolveStep /\ ~FetchStep /\ pc' # "resolve") => Fetched' = Fetched
       /\ (pc' \in {"resolve", "fetch"}) => Len(hist'.calls) = idx' - 1
       /\ (pc' \in {"persist", "sleep"}) => Len(hist'.calls) = idx']_vars

\* a cycle has ended in which the first instrument was found up to date and
\* the second one was fetched, with rows for an answer
C11_Witness ==
    /\ pc = "done"
    /\ Len(hist.calls) = 2
    /\ hist.calls[1] = Call("current", 0)
    /\ hist.calls[2].answer = "rows" /\ hist.calls[2].n >= 1
    /\ Lines(1, "current") # {} /\ Lines(2, "current") = {}

\* The state of the instrument at position i of the target list, in the
\* states of the specification's state machine. The call of fetch_data is one
\* step, which takes the instrument from FETCHING through NORMALIZING; before
\* sync_data is called every instrument is PENDING.
State(i) ==
    IF pc = "constructed" \/ i > idx THEN "PENDING"
    ELSE IF Lines(i, "current") # {} THEN "UP_TO_DATE"
    ELSE IF Lines(i, "error") # {} THEN "FAILED"
    ELSE IF i < idx \/ pc \in {"sleep", "done"} THEN "DONE"
    ELSE CASE pc = "resolve" -> "RESOLVING_CHECKPOINT"
           [] pc = "fetch"   -> "FETCHING"
           [] pc = "persist" -> "PERSISTING"
           [] OTHER          -> "FAILED"

Terminal == {"UP_TO_DATE", "DONE", "FAILED"}

\* t is s, or comes after s on a path of the state machine; PENDING is left
\* for RESOLVING_CHECKPOINT only
Along(s, t) ==
    \/ t = s
    \/ s = "PENDING" /\ t = "RESOLVING_CHECKPOINT"
    \/ s = "RESOLVING_CHECKPOINT" /\ t \in {"UP_TO_DATE", "FETCHING", "FAILED"}
    \/ s = "FETCHING" /\ t \in {"NORMALIZING", "PERSISTING", "DONE", "FAILED"}
    \/ s = "NORMALIZING" /\ t \in {"PERSISTING", "DONE", "FAILED"}
    \/ s = "PERSISTING" /\ t \in {"DONE", "FAILED"}

\* C12: inside a sync cycle every instrument moves along PENDING ->
\* RESOLVING_CHECKPOINT -> (UP_TO_DATE | FETCHING -> NORMALIZING -> PERSISTING
\* -> DONE) | FAILED only, never backwards and never past the checkpoint
\* resolution; at most one instrument is neither PENDING nor terminal, and an
\* instrument leaves PENDING only when every instrument before it in the
\* target list is terminal and every one after it is PENDING.
C12_StateMachine ==
    [][pc' # "constructed" =>
         \A i \in 1..Len(target_list') :
            /\ Along(State(i), State(i)')
            /\ \A j \in 1..Len(target_list') :
                  (State(i)' \notin Terminal \cup {"PENDING"}
                      /\ State(j)' \notin Terminal \cup {"PENDING"}) => i = j
            /\ (State(i) = "PENDING" /\ State(i)' # "PENDING") =>
                  /\ \A j \in 1..(i - 1) : State(j)' \in Terminal
                  /\ \A j \in (i + 1)..Len(target_list') : State(j)' = "PENDING"]_vars

\* the first instrument is done, with rows stored, and the second one is
\* being persisted
C12_Witness ==
    /\ pc = "persist" /\ idx = 2
    /\ State(1) = "DONE" /\ Added(1) # {}
    /\ State(2) = "PERSISTING" /\ Len(data.rows) > 0

\* C13: in a sync cycle the pacing delay has been taken between any two
\* consecutive calls of fetch_data; it follows every call, whether the call
\* returned rows, failed or returned nothing, so no cycle ends with a call the
\* delay has not followed; and no instrument is fetched twice in a cycle.
C13_Pacing ==
    [][/\ FetchStep => (~hist.owed /\ idx \notin Fetched)
       /\ Ended' => ~hist'.owed]_vars

\* the part of C13 about consecutive calls on its own: a call of fetch_data
\* is made only when the delay has followed the call before it, and never for
\* an instrument fetched before in the cycle
PacedBetweenCalls == [][FetchStep => (~hist.owed /\ idx \notin Fetched)]_vars

\* after the delay the second instrument is being fetched, and the call
\* before it had returned nothing
PacedAfterNothing ==
    /\ pc = "fetch" /\ idx = 2
    /\ hist.calls[1] = Call("empty", 0)

\* the columns the API called for a code answers with
ExpectedCols(symbol) == IF Category(symbol) = "index" THEN IndexCols ELSE FundCols

\* the provider's answer has nothing for the range [start_date, end_date]:
\* it is an error, a frame without the expected columns, or a frame without a
\* row dated inside the range
Unusable(answer, symbol, start_date, end_date) ==
    \/ answer.kind = "raise"
    \/ ~(ExpectedCols(symbol) \subseteq answer.df.cols)
    \/ LET col == IF Category(symbol) = "index" THEN "date" ELSE "riqi"
       IN  \A j \in 1..Len(answer.df.rows) :
              \/ answer.df.rows[j][col] < ToDatetimeCompact(start_date)
              \/ answer.df.rows[j][col] > ToDatetimeCompact(end_date)

\* C15: when the provider's answer for an instrument is an error, a frame
\* with unexpected columns or a frame with no row inside the window,
\* fetch_data returns an empty frame and sync_data goes on; for an empty frame
\* sync_data appends and prints nothing, and the store and the latest date
\* stored under the instrument's name are what they were when the cycle
\* started; nothing changes the store before the next cycle, which resolves
\* the instrument from that same latest date.
C15_FailedOrEmptyFetch ==
    [][/\ (FetchStep /\ Unusable(resp', code, start_dt, end_dt)) =>
             (pc' = "persist" /\ IsEmpty(data'))
       /\ (pc = "persist" /\ IsEmpty(data)) =>
             (pc' = "sleep" /\ store' = store /\ log' = log)
       /\ (pc = "sleep" /\ IsEmpty(data)) =>
             /\ Added(idx) = {}
             /\ MaxDate(store, name) = MaxDate(hist.store0, name)
       /\ (pc \in {"done", "crashed", "constructed"}) =>
             /\ store' = store
             /\ pc' = "resolve" => hist'.store0 = store
       /\ ResolveStep =>
             start_dt' = StartBoundary(MaxDate(hist.store0, name), today)]_vars

\* an instrument with rows stored was fetched the day after its checkpoint,
\* the provider answered with older rows only, and nothing was appended
C15_Witness ==
    /\ pc = "sleep"
    /\ IsEmpty(data)
    /\ Len(resp.df.rows) > 0
    /\ ExpectedCols(code) \subseteq resp.df.cols
    /\ DatesUnder(name) # {}
    /\ start_dt = Digits(NextDay(Latest(name)))

\* the amounts of the rows of the provider's answer that are dated inside
\* [start_date, end_date], in the order of the answer
InWindowAmounts(answer, symbol, start_date, end_date) ==
    LET index == Category(symbol) = "index"
        col   == IF index THEN "date" ELSE "riqi"
        rows  == SelectSeq(answer.df.rows,
                           LAMBDA r : /\ ToDatetimeCompact(start_date) <= r[col]
                                      /\ r[col] <= ToDatetimeCompact(end_date))
    IN  [k \in 1..Len(rows) |-> rows[k][IF index THEN "amount" ELSE "chengjiaoe"]]

\* v hundredths is the volume ratio of position k of the amounts a
VolRatioOf(v, a, k) ==
    LET s == a[k] + a[k - 1] + a[k - 2] + a[k - 3] + a[k - 4]
    IN  IF k >= 5 /\ s # 0 THEN IsRoundedRatio(v, a[k], s) ELSE v = 100

\* C16: the vol_ratio of every row fetch_data returns is determined by the
\* amounts of the rows of the answer dated inside the window and by the row's
\* position among them, whatever the store holds and whatever rows the answer
\* has outside the window; a fetch with fewer than 5 rows inside the window
\* gives every row vol_ratio 1.0.
C16_BatchLocal ==
    [][(FetchStep /\ ~IsEmpty(data')) =>
          LET a == InWindowAmounts(resp', code, start_dt, end_dt)
          IN  /\ Len(data'.rows) = Len(a)
              /\ \A k \in 1..Len(a) : VolRatioOf(data'.rows[k]["vol_ratio"], a, k)
              /\ Len(a) < 5 => \A k \in 1..Len(a) : data'.rows[k]["vol_ratio"] = 100]_vars

\* a fetch resumed from a checkpoint has returned fewer than 5 rows, from an
\* answer with at least 5 rows before the window, and an instrument fetched
\* from an empty store has a row with a computed ratio
C16_Witness ==
    /\ pc = "persist"
    /\ DatesUnder(name) # {}
    /\ Len(data.rows) \in 1..4
    /\ Len(resp.df.rows) >= Len(data.rows) + 5
    /\ \E r \in store : r["vol_ratio"] # 100

\* the display names of the target lists
Names == UNION {{list[i][2] : i \in 1..Len(list)} : list \in TargetLists}

\* the dates stored under name n in a table
DatesIn(table, n) == {r["date"] : r \in {x \in table : x["name"] = n}}

\* every date of D is before date d
AllBefore(D, d) == \A e \in D : Digits(e) < Digits(d)

\* C18: in every step that changes the store, every row appended is a row
\* under the name of the instrument being synced, dated after every date
\* stored under that name and not after the current date; the latest date
\* stored under a name does not decrease, and under a name the cycle has
\* appended a row to it is after every date that was stored under that name
\* when the cycle started.
C18_CheckpointMonotone ==
    [][store' # store =>
          /\ \A r \in store' \ store :
                /\ r["name"] = name
                /\ AllBefore(DatesIn(store, name), r["date"])
                /\ Digits(r["date"]) <= Digits(CurrentDate)
          /\ \A n \in Names :
                /\ DatesIn(store, n) \subseteq DatesIn(store', n)
                /\ DatesIn(store, n) # {} =>
                      Digits(MaxDate(store, n)) <= Digits(MaxDate(store', n))
                /\ (\E r \in store' \ hist'.store0 : r["name"] = n) =>
                      AllBefore(DatesIn(hist'.store0, n), MaxDate(store', n))]_vars

\* the cycle of the next day has appended a row under a name that had rows
\* stored, all of them older
C18_Witness ==
    /\ pc = "sleep"
    /\ Added(idx) # {}
    /\ DatesIn(hist.store0, name) # {}
    /\ Digits(MaxDate(hist.store0, name)) < Digits(MaxDate(store, name))
    /\ MaxDate(store, name) = CurrentDate

\* the dates stored for code c
DatesOf(c) == {r["date"] : r \in {x \in store : x["code"] = c}}

\* C20: while every sync cycle since the empty store has run over the same
\* target list (its names pairwise distinct), every stored row carries a
\* <<code, name>> pair of the list; the dates stored under an instrument's
\* name are the dates stored for its code, so the checkpoint found by name is
\* the latest date stored for the code; and no append is attempted, and none
\* fails, on a (date, code) that is stored already.
C20_NameAgreesWithCode ==
    hist.fixed =>
        /\ \A r \in store : \E i \in 1..Len(target_list) : <<r["code"], r["name"]>> = target_list[i]
        /\ \A i \in 1..Len(target_list) : DatesOf(target_list[i][1]) = DatesUnder(target_list[i][2])
        /\ ~DuplicateAttempt
        /\ pc # "crashed"

\* the second cycle over the same list has appended rows for an instrument
\* that had rows stored
C20_Witness ==
    /\ hist.fixed /\ hist.cycles = 2
    /\ pc = "sleep"
    /\ Added(idx) # {}
    /\ \E r \in hist.store0 : r["code"] = code
    /\ \A i, j \in 1..Len(target_list) : target_list[i][2] = target_list[j][2] => i = j

-----------------------------------------------------------------------------
(* Properties of the killed and resumed cycle, checked under SpecKill *)

\* sync_data as a function of the table: the cycle over `list` from position
\* i on, the provider answering every call with its rows of the day and
\* nothing interrupting the cycle
RECURSIVE Uninterrupted(_, _, _)
Uninterrupted(table, list, i) ==
    IF i > Len(list) THEN table
    ELSE LET s   == StartBoundary(MaxDate(table, list[i][2]), today)
             e   == EndBoundary(today)
             df  == fetch_data(list[i][1], list[i][2], s, e,
                               Provider(list[i][1], s, e, "exact")).df
             res == to_sql(table, df)
         IN  IF s > e \/ IsEmpty(df) THEN Uninterrupted(table, list, i + 1)
             ELSE IF res.raised THEN table
             ELSE Uninterrupted(res.table, list, i + 1)

\* every instrument of these calls was up to date or answered with the
\* provider's rows
WithData(calls) == \A k \in 1..Len(calls) : calls[k].answer \in {"rows", "current"}

\* C14: when a sync cycle is killed, every stored row is a row, field by
\* field, of the store an uninterrupted cycle over the same list on the same
\* day would have left; and when the cycle is then run again to its end, over
\* the same list and upstream data, the store is exactly the one the
\* uninterrupted cycle would have left.
C14_ResumeAfterKill ==
    /\ (pc = "killed" /\ WithData(hist.calls)) =>
          store \subseteq Uninterrupted(hist.base, target_list, 1)
    /\ (pc = "done" /\ hist.resumed /\ WithData(hist.calls)) =>
          store = Uninterrupted(hist.base, target_list, 1)

\* a cycle was killed after it had stored the rows of its first instrument,
\* and the cycle run after it has stored the rows of the second one
C14_Witness ==
    /\ pc = "done" /\ hist.resumed /\ WithData(hist.calls)
    /\ hist.base = {}
    /\ \E r \in hist.store0 : r["code"] = target_list[1][1]
    /\ \A r \in hist.store0 : r["code"] # target_list[2][1]
    /\ \E r \in store : r["code"] = target_list[2][1] /\ r["vol_ratio"] # Neutral

\* the rows of the frame being persisted
Batch == RowSet(data)

\* C19: the append of an instrument's frame is all or nothing. Every step
\* leaves the store as it was or adds every row of the frame to it; an append
\* that fails at a row after the first, and a kill while rows are inserted,
\* leave the store as it was before the append; so at no time does the store
\* hold some rows of the frame and not the others.
C19_AtomicPersist ==
    [][/\ store' = store \/ (Batch \cap store = {} /\ store' = store \cup Batch)
       /\ Batch \cap store' \in {{}, Batch}
       /\ (pc = "persist" /\ pc' \in {"crashed", "killed"}) => store' = store
       /\ (pc = "persist" /\ pc' = "sleep") => Batch \subseteq store']_vars

\* an append has failed at a row after the first: the frame has a row twice,
\* no row of it was stored before, and none is stored now
C19_Witness ==
    /\ pc = "crashed"
    /\ Len(data.rows) >= 3
    /\ ~KeyTaken(store, data, 1)
    /\ KeyTaken(store, data, Len(data.rows))
    /\ Batch \cap store = {}
    /\ store # {}

\* rows have been inserted and not committed: a kill here is a kill during
\* persisting
MidTransaction == pc = "persist" /\ txn \in 1..(Len(data.rows) - 1)

\* C19 at the grain of sync_data: what the row-by-row append leaves in the
\* store, and whether it raises, is what to_sql as one step does
InsertsAreToSql ==
    [][(pc = "persist" /\ pc' \in {"sleep", "crashed"}) =>
          /\ store' = to_sql(store, data).table
          /\ (pc' = "crashed") <=> to_sql(store, data).raised]_vars

=============================================================================
